---- MODULE Spec2Model ----
(***************************************************************************)
(* ANAC loader (src/src/anac/load_to_bigquery.py): schema detection over a *)
(* sample of files, per-file projection into the unified schema, and the   *)
(* orchestrator load_all_anac_data.                                        *)
(*                                                                         *)
(* Spec is the run with every collaborator call free to fail, over small   *)
(* buckets.  SpecSniff, SpecTokenize, SpecProject and SpecSchema are the   *)
(* run without failures over every header line, data line, file and sample *)
(* of a bounded shape: what the run computes from the files alone.         *)
(*                                                                         *)
(* Text is a sequence of one-character strings.  A file's content is kept  *)
(* as the list content.split('\n') gives: a non-empty list of lines, none  *)
(* of which holds a line feed (split and join on '\n' are inverse to each   *)
(* other on such lists, so nothing is lost).                               *)
(***************************************************************************)
EXTENDS Integers, Sequences, FiniteSets, TLC

\* ------------------------------------------------------------ characters

QUOTE == "\""
APOS  == "'"
TAB   == "\t"

Letters ==
    { "a","b","c","d","e","f","g","h","i","j","k","l","m",
      "n","o","p","q","r","s","t","u","v","w","x","y","z",
      "A","B","C","D","E","F","G","H","I","J","K","L","M",
      "N","O","P","Q","R","S","T","U","V","W","X","Y","Z" }

DigitChars == <<"0","1","2","3","4","5","6","7","8","9">>

\* str.isdigit / str.isalnum on one character
IsDigit(c) == \E i \in 1..Len(DigitChars) : DigitChars[i] = c
IsAlnum(c) == c \in Letters \/ IsDigit(c)

\* the characters str.strip() removes
IsSpace(c) == c \in {" ", TAB, "\r"}

\* the order of the code points of the characters a clean name can hold
\* ('0'..'9' < 'A'..'Z' < '_' < 'a'..'z'), as sorted() compares them
AsciiOrder ==
    << "0","1","2","3","4","5","6","7","8","9",
       "A","B","C","D","E","F","G","H","I","J","K","L","M",
       "N","O","P","Q","R","S","T","U","V","W","X","Y","Z",
       "_",
       "a","b","c","d","e","f","g","h","i","j","k","l","m",
       "n","o","p","q","r","s","t","u","v","w","x","y","z" >>

CodePoint(c) == CHOOSE i \in 1..Len(AsciiOrder) : AsciiOrder[i] = c

\* ------------------------------------------------------------ str helpers

RECURSIVE LStrip(_)
LStrip(s) == IF s = <<>> THEN <<>>
             ELSE IF IsSpace(Head(s)) THEN LStrip(Tail(s)) ELSE s

RECURSIVE RStrip(_)
RStrip(s) == IF s = <<>> THEN <<>>
             ELSE IF IsSpace(s[Len(s)]) THEN RStrip(SubSeq(s, 1, Len(s) - 1)) ELSE s

\* str.strip()
Strip(s) == RStrip(LStrip(s))

\* s.startswith(p), s.endswith(p)
StartsWith(s, p) == Len(s) >= Len(p) /\ SubSeq(s, 1, Len(p)) = p
EndsWith(s, p)   == Len(s) >= Len(p) /\ SubSeq(s, Len(s) - Len(p) + 1, Len(s)) = p

\* s.replace(old, new): the non-overlapping occurrences, left to right (old non-empty)
RECURSIVE Replace(_, _, _)
Replace(s, old, new) ==
    IF Len(s) < Len(old) THEN s
    ELSE IF StartsWith(s, old)
         THEN new \o Replace(SubSeq(s, Len(old) + 1, Len(s)), old, new)
         ELSE <<Head(s)>> \o Replace(Tail(s), old, new)

\* line.split(delimiter) for a one-character delimiter
RECURSIVE SplitLoop(_, _, _, _, _)
SplitLoop(line, delimiter, i, fields, current) ==
    IF i > Len(line) THEN Append(fields, current)
    ELSE IF line[i] = delimiter
         THEN SplitLoop(line, delimiter, i + 1, Append(fields, current), <<>>)
         ELSE SplitLoop(line, delimiter, i + 1, fields, Append(current, line[i]))

Split(line, delimiter) == SplitLoop(line, delimiter, 1, <<>>, <<>>)

\* delimiter.join(parts)
RECURSIVE Join(_, _)
Join(parts, delimiter) ==
    IF parts = <<>> THEN <<>>
    ELSE IF Len(parts) = 1 THEN parts[1]
    ELSE parts[1] \o <<delimiter>> \o Join(Tail(parts), delimiter)

\* [f(x) for x in xs]
MapStrip(xs) == [i \in 1..Len(xs) |-> Strip(xs[i])]

\* os.path.basename
RECURSIVE Basename(_)
Basename(path) ==
    IF \E i \in 1..Len(path) : path[i] = "/"
    THEN Basename(Tail(path))
    ELSE path

\* str(n) for n >= 0
RECURSIVE DecimalChars(_)
DecimalChars(n) ==
    IF n < 10 THEN <<DigitChars[n + 1]>>
    ELSE DecimalChars(n \div 10) \o <<DigitChars[(n % 10) + 1]>>

\* ------------------------------------------------- header line, delimiter

None == <<"N","o","n","e","!">>

\* the first line that is not blank and does not start with '#', or None
RECURSIVE HeaderLine(_)
HeaderLine(lines) ==
    IF lines = <<>> THEN None
    ELSE IF Strip(Head(lines)) # <<>> /\ ~StartsWith(Head(lines), <<"#">>)
         THEN Head(lines)
         ELSE HeaderLine(Tail(lines))

delimiters == <<";", "|", TAB, ",">>

\* the quote-aware count of the semicolon candidate
RECURSIVE CountLoop(_, _, _, _)
CountLoop(header_line, i, field_count, in_quotes) ==
    IF i > Len(header_line) THEN field_count + 1
    ELSE IF header_line[i] = QUOTE
         THEN CountLoop(header_line, i + 1, field_count, ~in_quotes)
         ELSE IF header_line[i] = ";" /\ ~in_quotes
              THEN CountLoop(header_line, i + 1, field_count + 1, in_quotes)
              ELSE CountLoop(header_line, i + 1, field_count, in_quotes)

FieldCount(header_line, delimiter) ==
    IF delimiter = ";"
    THEN CountLoop(header_line, 1, 0, FALSE)
    ELSE Len(Split(header_line, delimiter))

NoDelimiter == "None"

\* a slip: a later candidate with the same count replaces the best so far
BetterOrEqual(field_count, max_fields) == field_count >= max_fields

\* "if field_count > max_fields" keeps a candidate only when it beats the best so far
Better(field_count, max_fields) == field_count > max_fields

\* the loop over the candidates, from best_delimiter = None and max_fields = 0
RECURSIVE SniffLoop(_, _, _, _)
SniffLoop(header_line, i, best_delimiter, max_fields) ==
    IF i > Len(delimiters) THEN best_delimiter
    ELSE LET field_count == FieldCount(header_line, delimiters[i])
         IN  IF Better(field_count, max_fields)
             THEN SniffLoop(header_line, i + 1, delimiters[i], field_count)
             ELSE SniffLoop(header_line, i + 1, best_delimiter, max_fields)

DetectDelimiter(header_line) == SniffLoop(header_line, 1, NoDelimiter, 0)

\* ------------------------------------------------------------- tokenizer

\* a slip: the field is appended as it stands
EndFieldUnstripped(current_field) == current_field

\* what is appended to the field list when a field ends
EndField(current_field) == Strip(current_field)

\* the quote-aware semicolon tokenizer
RECURSIVE TokenizeLoop(_, _, _, _, _)
TokenizeLoop(line, i, fields, current_field, in_quotes) ==
    IF i > Len(line) THEN Append(fields, EndField(current_field))
    ELSE IF line[i] = QUOTE
         THEN TokenizeLoop(line, i + 1, fields, current_field, ~in_quotes)
         ELSE IF line[i] = ";" /\ ~in_quotes
              THEN TokenizeLoop(line, i + 1, Append(fields, EndField(current_field)),
                                <<>>, in_quotes)
              ELSE TokenizeLoop(line, i + 1, fields,
                                Append(current_field, line[i]), in_quotes)

Tokenize(line) == TokenizeLoop(line, 1, <<>>, <<>>, FALSE)

\* the fields of a header or data line under the file's delimiter
ParseLine(line, best_delimiter) ==
    IF best_delimiter = ";"
    THEN Tokenize(line)
    ELSE MapStrip(Split(line, best_delimiter))

\* ------------------------------------------------------------ clean names

\* one character of header.replace(' ', '_').replace('-', '_').replace('.', '_')
ReplaceChar(c) == IF c \in {" ", "-", "."} THEN "_" ELSE c

\* ''.join(c for c in s if c.isalnum() or c == '_')
KeepChar(c) == IsAlnum(c) \/ c = "_"

\* the clean name of a raw header
CleanName(header) ==
    LET stripped == Strip(header)
        replaced == [i \in 1..Len(stripped) |-> ReplaceChar(stripped[i])]
    IN  SelectSeq(replaced, KeepChar)

\* "if clean_header and not clean_header[0].isdigit()"
IsValidName(clean_header) == clean_header # <<>> /\ ~IsDigit(clean_header[1])

\* f"field_{n}"
Placeholder(n) == <<"f","i","e","l","d","_">> \o DecimalChars(n)

\* the clean headers of one file at loading: an unusable name becomes field_<n>,
\* n the number of clean headers collected before it
RECURSIVE CleanHeadersLoop(_, _, _)
CleanHeadersLoop(headers, i, clean_headers) ==
    IF i > Len(headers) THEN clean_headers
    ELSE LET clean_header == CleanName(headers[i])
         IN  IF IsValidName(clean_header)
             THEN CleanHeadersLoop(headers, i + 1, Append(clean_headers, clean_header))
             ELSE CleanHeadersLoop(headers, i + 1,
                                   Append(clean_headers, Placeholder(Len(clean_headers))))

CleanHeaders(headers) == CleanHeadersLoop(headers, 1, <<>>)

\* the names one sampled file adds to all_headers at schema detection
ValidNames(headers) ==
    { CleanName(headers[i]) : i \in { j \in 1..Len(headers) :
          /\ Strip(headers[j]) # <<>>
          /\ IsValidName(CleanName(headers[j])) } }

\* ------------------------------------------------------------ sorted()

\* s < t for two strings, by code points
RECURSIVE LexLess(_, _)
LexLess(s, t) ==
    IF t = <<>> THEN FALSE
    ELSE IF s = <<>> THEN TRUE
    ELSE IF Head(s) = Head(t) THEN LexLess(Tail(s), Tail(t))
    ELSE CodePoint(Head(s)) < CodePoint(Head(t))

\* sorted(list(all_headers))
RECURSIVE Sorted(_)
Sorted(all_headers) ==
    IF all_headers = {} THEN <<>>
    ELSE LET least == CHOOSE x \in all_headers :
                          \A y \in all_headers : x = y \/ LexLess(x, y)
         IN  <<least>> \o Sorted(all_headers \ {least})

\* ------------------------------------------------------------ projection

\* a slip: the value is emitted as it is
EscapeNothing(value) == value

\* field.replace('"', "'")
EscapeQuotes(value) == [i \in 1..Len(value) |-> IF value[i] = QUOTE THEN APOS ELSE value[i]]

\* "schema_field in clean_headers"
InHeaders(schema_field, clean_headers) ==
    \E i \in 1..Len(clean_headers) : clean_headers[i] = schema_field

\* a slip: the last header of that name, not the first
FieldIndexLast(schema_field, clean_headers) ==
    CHOOSE i \in 1..Len(clean_headers) :
        /\ clean_headers[i] = schema_field
        /\ \A j \in (i + 1)..Len(clean_headers) : clean_headers[j] # schema_field

\* clean_headers.index(schema_field), counted from 1
FieldIndex(schema_field, clean_headers) ==
    CHOOSE i \in 1..Len(clean_headers) :
        /\ clean_headers[i] = schema_field
        /\ \A j \in 1..(i - 1) : clean_headers[j] # schema_field

\* the value of one unified column in one data line
FieldValue(schema_field, clean_headers, fields) ==
    IF InHeaders(schema_field, clean_headers)
    THEN LET field_index == FieldIndex(schema_field, clean_headers)
         IN  IF field_index <= Len(fields)
             THEN EscapeQuotes(fields[field_index])
             ELSE <<>>
    ELSE <<>>

\* a slip: the line's own fields follow the metadata values, as they come
RowDataPositional(filename, file_date, unified_schema, clean_headers, fields) ==
    <<filename, file_date>> \o fields

\* row_data: the two metadata values, then one value per unified column
RowData(filename, file_date, unified_schema, clean_headers, fields) ==
    <<filename, file_date>> \o
    [k \in 1..Len(unified_schema) |-> FieldValue(unified_schema[k], clean_headers, fields)]

\* filename.replace('.txt', '').replace('basica', '')
FileDate(filename) ==
    Replace(Replace(filename, <<".","t","x","t">>, <<>>),
            <<"b","a","s","i","c","a">>, <<>>)

\* the lines after the first one that are not blank
DataLines(lines) == SelectSeq(Tail(lines), LAMBDA line : Strip(line) # <<>>)

\* ------------------------------------------------------------ the bucket

\* the bucket is a list of blobs [name, lines]; list_anac_files keeps the names
\* that end with '.txt', in listing order
ListAnacFiles(blobs) ==
    LET txt == SelectSeq(blobs, LAMBDA blob : EndsWith(blob.name, <<".","t","x","t">>))
    IN  [i \in 1..Len(txt) |-> txt[i].name]

\* blob.download_as_text: latin-1, the first encoding tried, maps every byte, so
\* the first attempt returns the text
DownloadAsText(blobs, file_path) ==
    blobs[CHOOSE i \in 1..Len(blobs) : blobs[i].name = file_path].lines

\* "if not content": the empty text, whose split gives one empty line
IsEmptyContent(lines) == lines = << <<>> >>

\* ------------------------------------------------------- schema detection

SampleSize == 5

\* a slip: every listed file is sampled
SampleFilesAll(file_list) == file_list

\* the first SampleSize files of the listing
SampleFiles(file_list) ==
    SubSeq(file_list, 1, IF Len(file_list) < SampleSize THEN Len(file_list) ELSE SampleSize)

\* detection finds the header line, the delimiter and the headers of a sampled
\* file with the statements load_file_to_bigquery has, written out a second time
SampleHeaderLine(lines) == HeaderLine(lines)

SampleDelimiter(header_line) == DetectDelimiter(header_line)

\* a slip: the header line is split at every delimiter, also inside quotes
SampleParseNaive(header_line, best_delimiter) ==
    MapStrip(Split(header_line, best_delimiter))

SampleParse(header_line, best_delimiter) == ParseLine(header_line, best_delimiter)

\* the names one sampled file adds to all_headers ("continue" adds none)
SampleHeaders(lines) ==
    IF IsEmptyContent(lines) THEN {}
    ELSE LET header_line == SampleHeaderLine(lines)
         IN  IF header_line = None THEN {}
             ELSE LET best_delimiter == SampleDelimiter(header_line)
                  IN  IF best_delimiter = NoDelimiter THEN {}
                      ELSE ValidNames(SampleParse(header_line, best_delimiter))

\* the loop over the sampled files
RECURSIVE DetectLoop(_, _, _, _)
DetectLoop(blobs, sample_files, i, all_headers) ==
    IF i > Len(sample_files) THEN all_headers
    ELSE DetectLoop(blobs, sample_files, i + 1,
                    all_headers \cup SampleHeaders(DownloadAsText(blobs, sample_files[i])))

\* a slip: the names in the opposite order
UnifiedHeadersDescending(all_headers) ==
    LET ascending == Sorted(all_headers)
    IN  [i \in 1..Len(ascending) |-> ascending[Len(ascending) + 1 - i]]

\* the list detect_unified_schema returns from all_headers
UnifiedHeaders(all_headers) == Sorted(all_headers)

\* detect_unified_schema: list_ok is whether the listing call succeeds, raise_at
\* the position in the sample of the download that raises (0: none does)
DetectUnifiedSchema(blobs, list_ok, raise_at) ==
    LET file_list == IF list_ok THEN ListAnacFiles(blobs) ELSE <<>>
        sample_files == SampleFiles(file_list)
    IN  IF file_list = <<>> THEN [status |-> "None", headers |-> <<>>]
        ELSE IF raise_at \in 1..Len(sample_files)
             THEN [status |-> "None", headers |-> <<>>]
             ELSE [status |-> "list",
                   headers |-> UnifiedHeaders(DetectLoop(blobs, sample_files, 1, {}))]

\* ------------------------------------------------------- loading one file

\* what the environment can do to one call of load_file_to_bigquery
\* (write_failed: temp_file.write raises, after the temporary file was created)
TransportFaults == {"download_transport", "get_table_transport", "job_transport"}
LoadFaults == {"none", "job_rejected", "write_failed"} \cup TransportFaults

\* enhanced_headers
EnhancedHeaders(unified_schema) ==
    << <<"s","o","u","r","c","e","_","f","i","l","e">>,
       <<"f","i","l","e","_","d","a","t","e">> >> \o unified_schema

\* one call of load_file_to_bigquery: the value returned (ret), the place it
\* returned from (why), the exception caught if any (raised), and what it computed
LoadFileToBigquery(blobs, file_path, unified_schema, fault, table_exists) ==
    LET lines == DownloadAsText(blobs, file_path)
        header_line == HeaderLine(lines)
        best_delimiter == DetectDelimiter(header_line)
        headers == ParseLine(header_line, best_delimiter)
        clean_headers == CleanHeaders(headers)
        filename == Basename(file_path)
        file_date == FileDate(filename)
        data == DataLines(lines)
        fields == [i \in 1..Len(data) |-> ParseLine(data[i], best_delimiter)]
        rows == [i \in 1..Len(data) |->
                    RowData(filename, file_date, unified_schema, clean_headers, fields[i])]
        enhanced_lines == [i \in 1..Len(data) |-> Join(rows[i], best_delimiter)]
        enhanced_content ==
            <<Join(EnhancedHeaders(unified_schema), best_delimiter)>> \o enhanced_lines
        early == [file_path |-> file_path, ret |-> FALSE, why |-> "exception",
                  raised |-> "none", header_line |-> None,
                  best_delimiter |-> NoDelimiter, headers |-> <<>>,
                  clean_headers |-> <<>>, data |-> <<>>, fields |-> <<>>,
                  rows |-> <<>>, enhanced_content |-> <<>>, submitted |-> FALSE,
                  calls |-> <<>>, temp |-> "none"]
        parsed == [early EXCEPT !.header_line = header_line,
                                !.best_delimiter = best_delimiter,
                                !.headers = headers,
                                !.clean_headers = clean_headers,
                                !.data = data, !.fields = fields, !.rows = rows]
    IN  IF fault = "download_transport"
        THEN [early EXCEPT !.raised = fault]
        ELSE IF header_line = None
        THEN [early EXCEPT !.why = "no_header"]
        ELSE IF best_delimiter = NoDelimiter
        THEN [early EXCEPT !.why = "no_delimiter", !.header_line = header_line]
        ELSE IF enhanced_lines = <<>>
        THEN [parsed EXCEPT !.why = "no_rows"]
        ELSE IF fault = "get_table_transport"
        THEN [parsed EXCEPT !.raised = fault, !.calls = <<"get_table">>]
        ELSE IF ~table_exists
        THEN [parsed EXCEPT !.raised = "not_found", !.calls = <<"get_table">>]
        ELSE IF fault = "write_failed"
        THEN [parsed EXCEPT !.raised = fault, !.calls = <<"get_table">>,
                            !.temp = "created"]
        ELSE IF fault \in {"job_rejected", "job_transport"}
        THEN [parsed EXCEPT !.raised = fault, !.enhanced_content = enhanced_content,
                            !.submitted = TRUE, !.temp = "created",
                            !.calls = <<"get_table", "load_table_from_file">>]
        ELSE [parsed EXCEPT !.ret = TRUE, !.why = "loaded",
                            !.enhanced_content = enhanced_content, !.submitted = TRUE,
                            !.temp = "created",
                            !.calls = <<"get_table", "load_table_from_file">>]

\* the level at which load_file_to_bigquery logs the return it takes
LogLevel(why) ==
    CASE why = "loaded" -> "info"
      [] why \in {"no_header", "no_rows"} -> "warning"
      [] OTHER -> "error"

\* ------------------------------------------------------------ the run

VARIABLES
    configured,        \* GOOGLE_GCS_BUCKET_NAME is not the placeholder
    bucket,            \* the blobs under the bucket, in listing order
    table,             \* the target table
    pc,                \* where load_all_anac_data is
    abort,             \* the early return that ended the run, "" if none
    schema_status,     \* "pending", then "None" or "list": what detection returned
    unified_schema,    \* the list detection returned
    files,             \* the listing the loading loop iterates
    loop_index,        \* the position of the loading loop in files
    successful_loads,
    outcome,           \* one record per call of load_file_to_bigquery, in call order
    jobs,              \* the load jobs that ended, in order
    calls,             \* the calls on the target table, in call order
    in_flight,         \* the load jobs submitted and not yet ended
    summary,           \* the counts the run logged at its end, <<>> if none
    temp_files         \* the files whose temporary .csv file is on disk

\* the state of process_anac_data (src/src/anac/aviation.py)
VARIABLES
    gcs_client,        \* what init_gcs_client returned: FALSE is None
    temp_base,         \* the directory TEMP_DIR is there
    temp_dir,          \* "absent" or "present": TEMP_DIR/anac_processing_<time>
    av_pc,             \* where process_anac_data is
    av_end,            \* how process_anac_data came to its end, "" before
    links,             \* the ZIP links of the page, in page order
    link_index,        \* the position of the loop over links
    to_upload,         \* the extracted files of the link not yet uploaded
    call               \* the call of download_file or upload_to_gcs under way

aviation == <<gcs_client, temp_base, temp_dir, av_pc, av_end, links, link_index,
              to_upload, call>>

vars == <<configured, bucket, table, pc, abort, schema_status, unified_schema,
          files, loop_index, successful_loads, outcome, jobs, calls, in_flight,
          summary, temp_files, aviation>>

\* the state of load_all_anac_data
loader == <<bucket, table, pc, abort, schema_status, unified_schema, files,
            loop_index, successful_loads, outcome, jobs, calls, in_flight, summary,
            temp_files>>

\* no call of download_file or upload_to_gcs is under way
NoCall == [fn |-> "", max_retries |-> 0, client |-> FALSE, state |-> "idle",
           attempt |-> 0, tries |-> <<>>, sleeps |-> <<>>, ret |-> ""]

\* process_anac_data is not running
AviationIdle ==
    /\ gcs_client = FALSE
    /\ temp_base = FALSE
    /\ temp_dir = "absent"
    /\ av_pc = "Idle"
    /\ av_end = ""
    /\ links = <<>>
    /\ link_index = 1
    /\ to_upload = 0
    /\ call = NoCall

\* the target table before the run: absent, or left by an earlier run
TablesBefore ==
    { [exists |-> FALSE, schema |-> <<>>, stale |-> FALSE, loads |-> <<>>],
      [exists |-> TRUE, schema |-> << <<"o","l","d">> >>, stale |-> TRUE, loads |-> <<>>] }

\* load_all_anac_data is about to be called over one of the given buckets
LoaderInit(buckets, configs, tables) ==
    /\ configured \in configs
    /\ bucket \in buckets
    /\ table \in tables
    /\ pc = "Idle"
    /\ abort = ""
    /\ schema_status = "pending"
    /\ unified_schema = <<>>
    /\ files = <<>>
    /\ loop_index = 1
    /\ successful_loads = 0
    /\ outcome = <<>>
    /\ jobs = <<>>
    /\ calls = <<>>
    /\ in_flight = <<>>
    /\ summary = <<>>
    /\ temp_files = {}

\* the state at the call of load_all_anac_data over one of the given buckets
InitOver(buckets, configs, tables) ==
    /\ LoaderInit(buckets, configs, tables)
    /\ AviationIdle

\* an early "return" of load_all_anac_data
Return(reason) ==
    /\ pc' = "Failed"
    /\ abort' = reason

\* the placeholder check of the bucket name
CheckConfig ==
    /\ pc = "Idle"
    /\ IF configured
       THEN pc' = "InitClients" /\ abort' = abort
       ELSE Return("config")
    /\ UNCHANGED <<configured, bucket, table, schema_status, unified_schema, files,
                   loop_index, successful_loads, outcome, jobs, calls,
                   in_flight, summary, temp_files, aviation>>

\* init_clients, which gives (None, None) when a client cannot be built
InitClients(results) ==
    /\ pc = "InitClients"
    /\ \E ok \in results :
          IF ok THEN pc' = "CreateDataset" /\ abort' = abort
          ELSE Return("clients")
    /\ UNCHANGED <<configured, bucket, table, schema_status, unified_schema, files,
                   loop_index, successful_loads, outcome, jobs, calls,
                   in_flight, summary, temp_files, aviation>>

\* create_dataset(exists_ok=True)
CreateDataset(results) ==
    /\ pc = "CreateDataset"
    /\ \E ok \in results :
          IF ok THEN pc' = "SchemaDetecting" /\ abort' = abort
          ELSE Return("dataset")
    /\ UNCHANGED <<configured, bucket, table, schema_status, unified_schema, files,
                   loop_index, successful_loads, outcome, jobs, calls,
                   in_flight, summary, temp_files, aviation>>

\* a slip: "if unified_schema is None" lets the empty list through
SchemaUsableUnlessNone(detected) == detected.status = "list"

\* "if not unified_schema": None and the empty list both end the run
SchemaUsable(detected) == detected.status = "list" /\ detected.headers # <<>>

\* detect_unified_schema and the check of what it returned
DetectSchema(list_results, raise_positions) ==
    /\ pc = "SchemaDetecting"
    /\ \E list_ok \in list_results, raise_at \in raise_positions :
          LET detected == DetectUnifiedSchema(bucket, list_ok, raise_at)
          IN  /\ schema_status' = detected.status
              /\ unified_schema' = detected.headers
              /\ IF SchemaUsable(detected)
                 THEN pc' = "ClearTable" /\ abort' = abort
                 ELSE Return("schema")
    /\ UNCHANGED <<configured, bucket, table, files, loop_index, successful_loads,
                   outcome, jobs, calls,
                   in_flight, summary, temp_files, aviation>>

\* clear_existing_table: delete_table(not_found_ok=True); its result is not looked at
ClearExistingTable(results) ==
    /\ pc = "ClearTable"
    /\ \E ok \in results :
          table' = IF ok
                   THEN [exists |-> FALSE, schema |-> <<>>, stale |-> FALSE, loads |-> <<>>]
                   ELSE table
    /\ calls' = Append(calls, "delete_table")
    /\ pc' = "TableProvisioning"
    /\ UNCHANGED <<configured, bucket, abort, schema_status, unified_schema, files,
                   loop_index, successful_loads, outcome, jobs,
                   in_flight, summary, temp_files, aviation>>

\* the schema create_unified_table asks for
TableSchema(schema_fields) == EnhancedHeaders(schema_fields)

\* create_unified_table: create_table(exists_ok=True) leaves an existing table as it is
CreateUnifiedTable(results) ==
    /\ pc = "TableProvisioning"
    /\ \E ok \in results :
          IF ok
          THEN /\ table' = IF table.exists THEN table
                           ELSE [exists |-> TRUE, schema |-> TableSchema(unified_schema),
                                 stale |-> FALSE, loads |-> <<>>]
               /\ pc' = "Listing"
               /\ abort' = abort
          ELSE /\ table' = table
               /\ Return("table")
    /\ calls' = Append(calls, "create_table")
    /\ UNCHANGED <<configured, bucket, schema_status, unified_schema, files,
                   loop_index, successful_loads, outcome, jobs,
                   in_flight, summary, temp_files, aviation>>

\* the second list_anac_files, which gives [] when the listing raises
ListFiles(results) ==
    /\ pc = "Listing"
    /\ \E ok \in results :
          LET file_list == IF ok THEN ListAnacFiles(bucket) ELSE <<>>
          IN  /\ files' = file_list
              /\ IF file_list = <<>>
                 THEN Return("no_files")
                 ELSE pc' = "Loading" /\ abort' = abort
    /\ UNCHANGED <<configured, bucket, table, schema_status, unified_schema,
                   loop_index, successful_loads, outcome, jobs, calls,
                   in_flight, summary, temp_files, aviation>>

\* a slip: the first file that fails ends the run
AfterFileStopOnFailure(ret) == IF ret THEN "Loading" ELSE "Failed"

\* where the loop goes after the file at loop_index returned ret
AfterFile(ret) == "Loading"

\* a slip: the loop goes on without waiting for the job
AfterSubmitNoWait == "Loading"

\* where the run is once load_table_from_file was called: in job.result()
AfterSubmit == "JobRunning"

\* one turn of the loading loop: load_file_to_bigquery on the next file, up to
\* its return or, when it submits a load job, up to the wait for that job
LoadFile(faults) ==
    /\ pc = "Loading"
    /\ loop_index <= Len(files)
    /\ \E fault \in faults :
          LET done == LoadFileToBigquery(bucket, files[loop_index], unified_schema,
                                         fault, table.exists)
          IN  /\ calls' = calls \o done.calls
              /\ temp_files' = IF done.temp = "created"
                                THEN temp_files \cup {done.file_path}
                                ELSE temp_files
              /\ IF done.submitted
                 THEN /\ in_flight' = Append(in_flight, done)
                      /\ pc' = AfterSubmit
                      /\ UNCHANGED <<outcome, successful_loads, loop_index>>
                 ELSE /\ outcome' = Append(outcome, done)
                      /\ successful_loads' = IF done.ret THEN successful_loads + 1
                                             ELSE successful_loads
                      /\ loop_index' = loop_index + 1
                      /\ pc' = AfterFile(done.ret)
                      /\ UNCHANGED in_flight
    /\ UNCHANGED <<configured, bucket, table, abort, schema_status, unified_schema,
                   files, jobs, summary, aviation>>

\* job.result() returns or raises, the temporary file is removed, and
\* load_file_to_bigquery returns to the loop
JobResult ==
    /\ pc = "JobRunning"
    /\ in_flight # <<>>
    /\ LET done == Head(in_flight)
       IN  /\ in_flight' = Tail(in_flight)
           /\ temp_files' = temp_files \ {done.file_path}
           /\ outcome' = Append(outcome, done)
           /\ jobs' = Append(jobs, [file_path |-> done.file_path,
                                    field_delimiter |-> done.best_delimiter,
                                    content |-> done.enhanced_content,
                                    ok |-> done.ret])
           /\ table' = IF done.ret
                       THEN [table EXCEPT !.loads = Append(@, done.file_path)]
                       ELSE table
           /\ successful_loads' = IF done.ret THEN successful_loads + 1
                                  ELSE successful_loads
           /\ pc' = AfterFile(done.ret)
    /\ loop_index' = loop_index + 1
    /\ UNCHANGED <<configured, bucket, abort, schema_status, unified_schema, files,
                   calls, summary, aviation>>

\* the loop is over: the count is logged and True is returned
Complete ==
    /\ pc = "Loading"
    /\ loop_index > Len(files)
    /\ pc' = "Completed"
    /\ summary' = << [successful_loads |-> successful_loads, files |-> Len(files)] >>
    /\ UNCHANGED <<configured, bucket, table, abort, schema_status, unified_schema,
                   files, loop_index, successful_loads, outcome, jobs, calls,
                   in_flight, temp_files, aviation>>

\* ------------------------------------------------------------ the inputs

\* every text of 1..n characters over chars
Strings(chars, n) == UNION { [1..k -> chars] : k \in 1..n }

\* the name of the i-th text file of the bucket
Path(i) ==
    <<"a","n","a","c","_","d","a","t","a","/","b","a","s","i","c","a">>
        \o DecimalChars(i) \o <<".","t","x","t">>

\* a bucket holding the given contents, in this order
BucketOf(contents) == [i \in 1..Len(contents) |-> [name |-> Path(i), lines |-> contents[i]]]

nome   == <<"n","o","m","e">>
idade  == <<"i","d","a","d","e">>
cidade == <<"c","i","d","a","d","e">>
Ana    == <<"A","n","a">>
Rio    == <<"R","i","o">>
trinta == <<"3","0">>

\* the two files of the end-to-end scenario
FileNomeIdade   == << Join(<<nome, idade>>, ";"), Join(<<Ana, trinta>>, ";") >>
FileIdadeCidade == << Join(<<idade, cidade>>, ";"), Join(<<trinta, Rio>>, ";") >>

\* other contents: one column only, no usable name, the empty text, a header
\* without data
FileOneColumn  == << nome, Ana >>
FileNoNames    == << <<"1",";","2">>, <<"x",";","y">> >>
FileEmpty      == << <<>> >>
FileHeaderOnly == << Join(<<nome, idade>>, ";") >>

Contents == { FileNomeIdade, FileOneColumn, FileNoNames, FileEmpty, FileHeaderOnly }

MaxFiles == 2

\* a blob that is no text file
ZipBlob == [name |-> <<"a","n","a","c","_","d","a","t","a","/","b",".","z","i","p">>,
            lines |-> << <<"P","K">> >>]

\* text files named after a month, and against the naming convention
DatedBlob ==
    [name |-> <<"a","n","a","c","_","d","a","t","a","/","b","a","s","i","c","a",
                "2","0","2","4","-","0","1",".","t","x","t">>,
     lines |-> FileNomeIdade]
OddBlob ==
    [name |-> <<"a","n","a","c","_","d","a","t","a","/","v","o","o","s",".","t","x","t">>,
     lines |-> FileNomeIdade]

\* a header line that comes after a blank line, after a comment line
FileBlankFirst   == << <<>> >> \o FileNomeIdade
FileCommentFirst == << <<"#","c">> >> \o FileNomeIdade

Buckets ==
    { BucketOf(contents) : contents \in UNION { [1..n -> Contents] : n \in 1..MaxFiles } }
    \cup { <<ZipBlob>>, <<ZipBlob>> \o BucketOf(<<FileNomeIdade>>) }
    \cup { <<DatedBlob, OddBlob>>, BucketOf(<<FileBlankFirst>>),
           BucketOf(<<FileCommentFirst>>) }

\* ------------------------------------------------------------ the run, whole

Init == InitOver(Buckets, BOOLEAN, TablesBefore)

\* every collaborator call may fail
Next ==
    \/ CheckConfig
    \/ InitClients(BOOLEAN)
    \/ CreateDataset(BOOLEAN)
    \/ DetectSchema(BOOLEAN, 0..SampleSize)
    \/ ClearExistingTable(BOOLEAN)
    \/ CreateUnifiedTable(BOOLEAN)
    \/ ListFiles(BOOLEAN)
    \/ LoadFile(LoadFaults)
    \/ JobResult
    \/ Complete

Spec == Init /\ [][Next]_vars

\* no collaborator call fails: what the run computes from the files alone
NextQuiet ==
    \/ CheckConfig
    \/ InitClients({TRUE})
    \/ CreateDataset({TRUE})
    \/ DetectSchema({TRUE}, {0})
    \/ ClearExistingTable({TRUE})
    \/ CreateUnifiedTable({TRUE})
    \/ ListFiles({TRUE})
    \/ LoadFile({"none"})
    \/ JobResult
    \/ Complete

\* the table is absent before the run
NoTable == { [exists |-> FALSE, schema |-> <<>>, stale |-> FALSE, loads |-> <<>>] }

\* ----------------------------------------------- header lines of every shape

SniffChars == {"a", ";", "|", TAB, ",", QUOTE}

MaxHeaderLen == 4

FileThreeColumns == << Join(<<nome, idade, cidade>>, ";") >>

\* one file, whose only line is any text over the candidate delimiters, the quote
\* and a letter; and a file with a data line after its header line
SniffBuckets ==
    { BucketOf(<< <<h>> >>) : h \in Strings(SniffChars, MaxHeaderLen) }
    \cup { BucketOf(<<FileThreeColumns>>), BucketOf(<<FileNomeIdade>>) }

InitSniff == InitOver(SniffBuckets, {TRUE}, NoTable)

SpecSniff == InitSniff /\ [][NextQuiet]_vars

\* ------------------------------------------------------------ what is checked

\* the number of quote characters of line before position i
QuotesBefore(line, i) == Cardinality({ j \in 1..(i - 1) : line[j] = QUOTE })

\* the positions of line at which delimiter separates two fields: every
\* occurrence, and for the semicolon only those outside quotes
Separators(line, delimiter) ==
    { i \in 1..Len(line) :
        /\ line[i] = delimiter
        /\ delimiter = ";" => QuotesBefore(line, i) % 2 = 0 }

Fields(line, delimiter) == Cardinality(Separators(line, delimiter)) + 1

\* the position of a candidate in the priority order
Priority(delimiter) == CHOOSE i \in 1..Len(delimiters) : delimiters[i] = delimiter

\* the candidate with the highest count, the earliest of them on a tie
Selected(line) ==
    CHOOSE d \in {delimiters[i] : i \in 1..Len(delimiters)} :
        \A e \in {delimiters[i] : i \in 1..Len(delimiters)} :
            \/ Fields(line, e) < Fields(line, d)
            \/ Fields(line, e) = Fields(line, d) /\ Priority(d) <= Priority(e)

\* the records of the files in which load_file_to_bigquery found a header line
Sniffed == { i \in 1..Len(outcome) : outcome[i].header_line # None }

\* C3: delimiter detection selects the candidate with the highest field count on
\* the header line (the semicolon counted outside quotes, the others at every
\* occurrence), and the earliest in the order ; | tab , among those with the
\* highest count; nome;idade;cidade selects the semicolon.  Loading and schema
\* detection select alike.
DelimiterIsHighestCountEarliestOnTie ==
    /\ \A i \in Sniffed :
          /\ outcome[i].best_delimiter = Selected(outcome[i].header_line)
          /\ outcome[i].header_line = FileThreeColumns[1]
                => outcome[i].best_delimiter = ";"
    /\ (schema_status = "list" /\ Len(bucket) = 1 /\ HeaderLine(bucket[1].lines) # None)
          => unified_schema =
                Sorted(ValidNames(ParseLine(HeaderLine(bucket[1].lines),
                                            Selected(HeaderLine(bucket[1].lines)))))

\* C3 witness: a header line on which the semicolon and the comma both count the
\* most fields, more than one, was sniffed and the semicolon was selected
DelimiterTieSniffed ==
    \E i \in Sniffed :
        /\ Fields(outcome[i].header_line, ";") = 2
        /\ Fields(outcome[i].header_line, ",") = 2
        /\ Fields(outcome[i].header_line, "|") = 1
        /\ outcome[i].best_delimiter = ";"

\* ------------------------------------------------ data lines of every shape

LineChars == {"a", ";", QUOTE, " "}

MaxLineLen == 4

QuotedLine == <<"a",";",QUOTE,"b",";","c",QUOTE,";","d">>

\* one semicolon file: the header a;b and one data line, any text over a letter,
\* the semicolon, the quote and the blank
LineBuckets ==
    { BucketOf(<< << <<"a",";","b">>, line >> >>) : line \in Strings(LineChars, MaxLineLen) }
    \cup { BucketOf(<< << <<"a",";","b">>, QuotedLine >> >>) }

InitTokenize == InitOver(LineBuckets, {TRUE}, NoTable)

SpecTokenize == InitTokenize /\ [][NextQuiet]_vars

\* the n-th separator of line, from the left
NthSeparator(line, delimiter, n) ==
    CHOOSE p \in Separators(line, delimiter) :
        Cardinality({ q \in Separators(line, delimiter) : q < p }) = n - 1

\* the text between the separators n-1 and n, the ends of the line included
Segment(line, delimiter, n) ==
    LET from == IF n = 1 THEN 1 ELSE NthSeparator(line, delimiter, n - 1) + 1
        to   == IF n = Fields(line, delimiter) THEN Len(line)
                ELSE NthSeparator(line, delimiter, n) - 1
    IN  SubSeq(line, from, to)

Unquoted(text) == SelectSeq(text, LAMBDA c : c # QUOTE)

\* the data lines load_file_to_bigquery tokenized with the semicolon tokenizer
Tokenized ==
    UNION { { <<i, k>> : k \in 1..Len(outcome[i].data) } :
            i \in { j \in 1..Len(outcome) : outcome[j].best_delimiter = ";" } }

\* C5 as stated: quotes toggle and are dropped, a semicolon outside quotes ends
\* the field, and each field, the last one too, is the buffer as it stands
FieldsAreTheBuffers ==
    \A t \in Tokenized :
        LET line == outcome[t[1]].data[t[2]]
            fields == outcome[t[1]].fields[t[2]]
        IN  /\ Len(fields) = Fields(line, ";")
            /\ \A n \in 1..Len(fields) : fields[n] = Unquoted(Segment(line, ";", n))

\* C5, amended: the semicolon tokenizer drops every quote, ends a field at every
\* semicolon outside quotes, and gives, for each stretch between two such
\* semicolons (or an end of the line), the stretch without its quotes and with
\* its leading and trailing whitespace stripped; the number of fields is 1 plus
\* the number of semicolons outside quotes, and a;"b;c";d gives [a, b;c, d].
FieldsAreTheStrippedBuffers ==
    \A t \in Tokenized :
        LET line == outcome[t[1]].data[t[2]]
            fields == outcome[t[1]].fields[t[2]]
        IN  /\ Len(fields) = Fields(line, ";")
            /\ \A n \in 1..Len(fields) :
                  /\ fields[n] = Strip(Unquoted(Segment(line, ";", n)))
                  /\ \A j \in 1..Len(fields[n]) : fields[n][j] # QUOTE
            /\ line = QuotedLine => fields = << <<"a">>, <<"b",";","c">>, <<"d">> >>

\* C5 witness: a line with a semicolon inside quotes was tokenized, the semicolon
\* stayed in its field and the blank before the quote was stripped
QuotedSemicolonTokenized ==
    \E t \in Tokenized :
        /\ outcome[t[1]].data[t[2]] = <<" ", QUOTE, ";", QUOTE>>
        /\ outcome[t[1]].fields[t[2]] = << <<";">> >>

\* ------------------------------------------------ files of every shape

RowChars == {"x", ";", ",", QUOTE, " "}

MaxRowLen == 3

\* a header line whose two columns both normalize to a_b
TwiceAB == <<"a",".","b",";","a","-","b">>

\* header lines: two columns in either order, one column, a comma file, a name
\* that starts with a digit, the same name twice, two names that normalize alike
ProjectHeaders ==
    { <<"a",";","b">>, <<"b",";","a">>, <<"a">>, <<"a",",","b">>,
      <<"1",";","a">>, <<"a",";","a">>, TwiceAB }

\* other columns, and a line that ends before the second one
FileOtherColumns == << <<"c",";","b">>, <<"y">> >>

\* a file with one of these headers and one data line, any text over a letter,
\* the semicolon, the comma, the quote and the blank; alone in the bucket, or
\* after a file with other columns; and the two files of the end-to-end scenario
ProjectBuckets ==
    { BucketOf(<< <<h, line>> >>) :
        h \in ProjectHeaders, line \in Strings(RowChars, MaxRowLen) }
    \cup { BucketOf(<< FileOtherColumns, <<h, line>> >>) :
        h \in ProjectHeaders, line \in Strings(RowChars, MaxRowLen) }
    \cup { BucketOf(<< FileNomeIdade, FileIdadeCidade >>) }

InitProject == InitOver(ProjectBuckets, {TRUE}, NoTable)

SpecProject == InitProject /\ [][NextQuiet]_vars

\* the data lines load_file_to_bigquery projected
Projected ==
    UNION { { <<i, k>> : k \in 1..Len(outcome[i].rows) } : i \in 1..Len(outcome) }

\* C1: every projected row has len(unified_schema) + 2 values: the file's base
\* name, its file_date, then one value per unified column, whatever the number
\* of headers of the file and of fields of the line.
RowHasUnifiedLengthPlusTwo ==
    \A t \in Projected :
        LET row == outcome[t[1]].rows[t[2]]
        IN  /\ Len(row) = Len(unified_schema) + 2
            /\ row[1] = Basename(outcome[t[1]].file_path)
            /\ row[2] = <<DigitChars[t[1] + 1]>>

\* C1 witness: rows were projected from a line with more fields than the file
\* has headers and from a line with fewer, in a file with fewer headers than
\* the unified schema has columns
RaggedLineProjected ==
    /\ \E t \in Projected :
          /\ Len(outcome[t[1]].fields[t[2]]) > Len(outcome[t[1]].headers)
          /\ Len(outcome[t[1]].headers) < Len(unified_schema)
    /\ \E t \in Projected :
          Len(outcome[t[1]].fields[t[2]]) < Len(outcome[t[1]].headers)

\* the positions of the file's clean headers that hold this name
HeaderPositions(i, name) ==
    { j \in 1..Len(outcome[i].clean_headers) : outcome[i].clean_headers[j] = name }

Least(positions) == CHOOSE j \in positions : \A q \in positions : j <= q

WithApostrophes(text) == [j \in 1..Len(text) |-> IF text[j] = QUOTE THEN APOS ELSE text[j]]

\* the rows projected from the two files of the end-to-end scenario
ScenarioRows ==
    \A i \in 1..Len(outcome) :
        (bucket = BucketOf(<< FileNomeIdade, FileIdadeCidade >>)) =>
            /\ unified_schema = <<cidade, idade, nome>>
            /\ i = 1 => SubSeq(outcome[i].rows[1], 3, 5) = << <<>>, trinta, Ana >>
            /\ i = 2 => SubSeq(outcome[i].rows[1], 3, 5) = << Rio, trinta, <<>> >>

\* C2 as stated, read in its favour: a unified column the file has no header for
\* is empty, and a column it has a header for, on a line that has a field there,
\* holds that field of the line
ValueIsTheFieldOfThatName ==
    /\ ScenarioRows
    /\ \A t \in Projected : \A k \in 1..Len(unified_schema) :
          LET positions == HeaderPositions(t[1], unified_schema[k])
              fields == outcome[t[1]].fields[t[2]]
              value == outcome[t[1]].rows[t[2]][k + 2]
          IN  /\ positions = {} => value = <<>>
              /\ (\E j \in positions : j <= Len(fields))
                    => \E j \in positions : j <= Len(fields) /\ value = fields[j]

\* C2, amended: projection is by column name, not by position: for each unified
\* column, in unified order, the projected value is the data line's field at the
\* index of the first local normalized header of that name, with every double
\* quote in it replaced by an apostrophe, and the empty string when the file has
\* no such header or the line has no field at that index.  The two scenario rows
\* project to ["", "30", "Ana"] and ["Rio", "30", ""].
ValueIsTheEscapedFieldOfThatName ==
    /\ ScenarioRows
    /\ \A t \in Projected : \A k \in 1..Len(unified_schema) :
          LET positions == HeaderPositions(t[1], unified_schema[k])
              fields == outcome[t[1]].fields[t[2]]
              value == outcome[t[1]].rows[t[2]][k + 2]
          IN  value = IF positions # {} /\ Least(positions) <= Len(fields)
                      THEN WithApostrophes(fields[Least(positions)])
                      ELSE <<>>

\* C2 witness: the second scenario file was projected: its columns idade;cidade
\* come out in the unified order cidade, idade, and nome, which it lacks, is empty
ScenarioProjected ==
    /\ bucket = BucketOf(<< FileNomeIdade, FileIdadeCidade >>)
    /\ Len(outcome) = 2
    /\ outcome[2].clean_headers = <<idade, cidade>>
    /\ outcome[2].rows = << << Basename(Path(2)), <<"2">>, Rio, trinta, <<>> >> >>

\* the files whose clean headers are, as a set, the unified schema
SameColumns ==
    { i \in 1..Len(outcome) :
        { outcome[i].clean_headers[j] : j \in 1..Len(outcome[i].clean_headers) }
            = { unified_schema[k] : k \in 1..Len(unified_schema) } }

\* the position of a name in the unified schema
UnifiedPosition(name) == CHOOSE k \in 1..Len(unified_schema) : unified_schema[k] = name

\* C7 as stated, read in its favour: in a file with the columns of the unified
\* schema, the value read back by name is the text the line holds in a column of
\* that name, as it stands or without its quotes
ReadBackIsTheTextOfTheLine ==
    \A i \in SameColumns : \A k \in 1..Len(outcome[i].rows) :
        \A j \in 1..Len(outcome[i].clean_headers) :
            LET line == outcome[i].data[k]
                delimiter == outcome[i].best_delimiter
                name == outcome[i].clean_headers[j]
                value == outcome[i].rows[k][UnifiedPosition(name) + 2]
            IN  (j = Least(HeaderPositions(i, name)) /\ j <= Fields(line, delimiter))
                    => value \in { Segment(line, delimiter, j),
                                   Unquoted(Segment(line, delimiter, j)) }

\* C7, amended: when a file's set of normalized local headers equals the unified
\* schema, reading the projected row by unified column name gives, for every data
\* line and column, the text the line holds under the first header of that name
\* with its leading and trailing whitespace stripped and its double quotes
\* removed (semicolon files) or replaced by apostrophes (other delimiters), and
\* the empty string when the line ends before that column.
ReadBackIsTheStrippedEscapedText ==
    \A i \in SameColumns : \A k \in 1..Len(outcome[i].rows) :
        \A j \in 1..Len(outcome[i].clean_headers) :
            LET line == outcome[i].data[k]
                delimiter == outcome[i].best_delimiter
                name == outcome[i].clean_headers[j]
                value == outcome[i].rows[k][UnifiedPosition(name) + 2]
            IN  j = Least(HeaderPositions(i, name)) =>
                    value = IF j > Fields(line, delimiter) THEN <<>>
                            ELSE IF delimiter = ";"
                                 THEN Strip(Unquoted(Segment(line, delimiter, j)))
                                 ELSE WithApostrophes(Strip(Segment(line, delimiter, j)))

\* C7 witness: a comma file with the columns of the unified schema was projected
\* from a line with a blank before and a quote after a value
PaddedQuotedLineReadBack ==
    \E i \in SameColumns :
        /\ outcome[i].best_delimiter = ","
        /\ outcome[i].data = << <<" ", "x", QUOTE>> >>
        /\ outcome[i].rows[1][3] = <<"x", APOS>>

\* ------------------------------------------------ samples of every shape

\* raw column headers: plain, upper case, with a blank or a period inside (both
\* give a_b), starting with a digit, empty
SchemaColumns ==
    { <<"a">>, <<"b">>, <<"B">>, <<"a"," ","b">>, <<"a",".","b">>, <<"1","a">>, <<>> }

MaxColumns == 2

SchemaHeaders ==
    { Join(columns, d) :
        columns \in UNION { [1..n -> SchemaColumns] : n \in 1..MaxColumns },
        d \in {";", ","} }

\* two sampled files: any of these headers, then one of three other files
SchemaBuckets ==
    { BucketOf(<< <<h, <<"x">> >>, other >>) :
        h \in SchemaHeaders, other \in {FileIdadeCidade, FileOtherColumns, FileEmpty} }
    \cup { BucketOf(<< FileNomeIdade, FileIdadeCidade >>) }

InitSchema == InitOver(SchemaBuckets, {TRUE}, NoTable)

SpecSchema == InitSchema /\ [][NextQuiet]_vars

Reversed(seq) == [i \in 1..Len(seq) |-> seq[Len(seq) + 1 - i]]

\* the same content with the columns of the header line in the opposite order
\* (the header lines here hold no quote, so the columns are what split gives)
ColumnsReversed(lines) ==
    IF HeaderLine(lines) = None THEN lines
    ELSE LET h == HeaderLine(lines)
             d == Selected(h)
             at == CHOOSE i \in 1..Len(lines) :
                      lines[i] = h /\ \A j \in 1..(i - 1) : lines[j] # h
         IN  [lines EXCEPT ![at] = Join(Reversed(Split(h, d)), d)]

\* the valid normalized header names of one sampled file
NamesOf(lines) ==
    IF HeaderLine(lines) = None THEN {}
    ELSE { name \in { CleanName(Segment(HeaderLine(lines), Selected(HeaderLine(lines)), n)) :
                        n \in 1..Fields(HeaderLine(lines), Selected(HeaderLine(lines))) } :
             name # <<>> /\ ~IsDigit(name[1]) }

\* C6: detect_unified_schema returns the valid normalized header names of the
\* sampled files as a list in strictly increasing lexicographic order (sorted,
\* no name twice), and returns the same list when the sampled files are visited
\* in the opposite order and when the columns of every header line are in the
\* opposite order; nome;idade and idade;cidade give [cidade, idade, nome].
UnifiedSchemaIsSortedSetOfNames ==
    schema_status = "list" =>
        /\ \A k \in 1..(Len(unified_schema) - 1) :
              LexLess(unified_schema[k], unified_schema[k + 1])
        /\ { unified_schema[k] : k \in 1..Len(unified_schema) }
              = UNION { NamesOf(bucket[i].lines) : i \in 1..Len(bucket) }
        /\ unified_schema = DetectUnifiedSchema(
              [i \in 1..Len(bucket) |-> bucket[Len(bucket) + 1 - i]], TRUE, 0).headers
        /\ unified_schema = DetectUnifiedSchema(
              [i \in 1..Len(bucket) |->
                  [bucket[i] EXCEPT !.lines = ColumnsReversed(bucket[i].lines)]],
              TRUE, 0).headers
        /\ bucket = BucketOf(<< FileNomeIdade, FileIdadeCidade >>)
              => unified_schema = <<cidade, idade, nome>>

\* C6 witness: a sample was unified in which a name comes from both files, a name
\* with an upper-case letter sorts before the lower-case ones, and the first
\* file has its columns in decreasing order
UnsortedSampleUnified ==
    /\ schema_status = "list"
    /\ bucket[1].lines[1] = <<"b", ";", "B">>
    /\ bucket[2].lines = FileOtherColumns
    /\ unified_schema = << <<"B">>, <<"b">>, <<"c">> >>

\* ------------------------------------------------ the run: what is checked

\* the header line has at most one field under every candidate delimiter
NoDelimiterAtAll(line) ==
    \A i \in 1..Len(delimiters) : Fields(line, delimiters[i]) <= 1

\* C4: a file whose header line has at most one field under every candidate
\* delimiter fails dialect detection: load_file_to_bigquery returns False for
\* it from the "could not detect delimiter" branch, projects no row of it and
\* submits nothing, and the loop goes on.
SingleFieldHeaderFailsDetection ==
    \A i \in Sniffed :
        NoDelimiterAtAll(outcome[i].header_line) =>
            /\ ~outcome[i].ret
            /\ outcome[i].why = "no_delimiter"
            /\ outcome[i].rows = <<>>
            /\ ~outcome[i].submitted
            /\ pc \in {"Loading", "Completed"}

\* C8: in the loading phase the files of the listing are attempted once each, in
\* listing order; a file that fails leaves the loop in Loading, with the next
\* step enabled, and never ends the run in Failed; what a later file returns is
\* what it returns with no failure before it; the run is Completed only after
\* every listed file was attempted, and counts the files that returned True.
EveryFileAttemptedOnceInOrder ==
    /\ pc \in {"Loading", "Completed"} =>
          /\ files = ListAnacFiles(bucket)
          /\ Len(outcome) = loop_index - 1
          /\ Len(outcome) <= Len(files)
          /\ \A i \in 1..Len(outcome) :
                /\ outcome[i].file_path = files[i]
                /\ outcome[i].raised = "none" =>
                      outcome[i] = LoadFileToBigquery(bucket, files[i], unified_schema,
                                                      "none", TRUE)
          /\ successful_loads = Cardinality({ i \in 1..Len(outcome) : outcome[i].ret })
    /\ pc = "Loading" => ENABLED (LoadFile(LoadFaults) \/ Complete)
    /\ pc = "JobRunning" => ENABLED JobResult
    /\ pc = "Completed" => Len(outcome) = Len(files)
    /\ pc = "Failed" => outcome = <<>>

\* C8 witness: a run is Completed in which the first file failed on a rejected
\* load job and the second file was loaded
CompletedAfterFailedFile ==
    /\ pc = "Completed"
    /\ Len(outcome) = 2
    /\ outcome[1].raised = "job_rejected" /\ ~outcome[1].ret
    /\ outcome[2].ret
    /\ successful_loads = 1

\* C9: when detection returns a list without any name, the run ends there: no
\* call was made on the target table (it is neither deleted nor created), no
\* file was handed to load_file_to_bigquery and no load job was submitted.
EmptySchemaAbortsBeforeTable ==
    (schema_status = "list" /\ unified_schema = <<>>) =>
        /\ pc = "Failed"
        /\ abort = "schema"
        /\ calls = <<>>
        /\ table \in TablesBefore
        /\ outcome = <<>>
        /\ jobs = <<>>

\* C9 witness: a sample without any valid name ended a run whose target table
\* was left by an earlier run
AbortedOnEmptySchema ==
    /\ schema_status = "list"
    /\ unified_schema = <<>>
    /\ \E i \in 1..Len(bucket) : bucket[i].lines = FileNoNames
    /\ table.exists /\ table.stale
    /\ pc = "Failed"

\* C10: an exception that is a transport or authorization failure, raised in
\* load_file_to_bigquery by the download, the table lookup or the load job, ends
\* the run in Failed at once: the file it was raised for is the last one attempted.
TransportFailureEndsTheRun ==
    \A i \in 1..Len(outcome) :
        outcome[i].raised \in TransportFaults =>
            /\ pc = "Failed"
            /\ Len(outcome) = i

\* the records of the files that had a header line and gave no row
WithoutRows == { i \in 1..Len(outcome) : outcome[i].why = "no_rows" }

\* the records of the files that failed: no header line, no delimiter, an exception
FailedFiles ==
    { i \in 1..Len(outcome) : outcome[i].why \in {"no_header", "no_delimiter", "exception"} }

\* C11: a file that has a header line and gives no projected row is never
\* submitted (no table lookup, no load job), and what the run keeps of it, the
\* value load_file_to_bigquery returned and the level it logged at, sets it
\* apart from every file that failed.
FileWithoutRowsIsANoOpNotAFailure ==
    \A i \in WithoutRows :
        /\ ~outcome[i].submitted
        /\ outcome[i].calls = <<>>
        /\ \A j \in 1..Len(jobs) : jobs[j].file_path # outcome[i].file_path
        /\ \A j \in FailedFiles :
              <<outcome[i].ret, LogLevel(outcome[i].why)>>
                  # <<outcome[j].ret, LogLevel(outcome[j].why)>>

\* C12: every run that started reports, on every way it can end, a summary of
\* the files attempted and succeeded: once the run is over, on completion or on
\* one of the early returns (clients, dataset, schema detection, table creation,
\* empty listing), the summary was logged (no action is enabled at "Completed"
\* or "Failed", so a summary missing then is never reported).
EveryEndedRunReportedASummary ==
    (pc = "Completed" \/ (pc = "Failed" /\ abort \in {"clients", "dataset", "schema",
                                                  "table", "no_files"}))
        => summary # <<>>

\* ------------------------------------- listings longer than the sample

FileA  == << <<"a">>, <<"x">> >>
FileB  == << <<"b">>, <<"y">> >>
FileAB == << <<"a",";","b">>, <<"x",";","y">> >>

\* the number of files listed after the sampled ones
MaxExtra == 1

\* listings of one file less than the sample up to MaxExtra files more, each
\* file with the column a or the column b; and a listing whose file after the
\* sample has both columns when the sample has a only
SampleBuckets ==
    { BucketOf(contents) :
        contents \in UNION { [1..n -> {FileA, FileB}] :
                               n \in (SampleSize - 1)..(SampleSize + MaxExtra) } }
    \cup { BucketOf(<<FileA, FileA, FileA, FileA, FileA, FileAB>>) }

InitSample == InitOver(SampleBuckets, {TRUE}, NoTable)

SpecSample == InitSample /\ [][NextQuiet]_vars

\* the valid names of the header lines of the first five files of the bucket
NamesOfFirstFive ==
    UNION { NamesOf(bucket[i].lines) : i \in { j \in 1..Len(bucket) : j <= 5 } }

\* the unified schema is made of the names of the first five files, and a
\* column of a loaded file with another name has its values in no projected row
SchemaIsOfTheFirstFive ==
    /\ schema_status = "pending" => unified_schema = <<>>
    /\ schema_status = "list" =>
          { unified_schema[k] : k \in 1..Len(unified_schema) } = NamesOfFirstFive
    /\ \A i \in 1..Len(outcome) : \A c \in 1..Len(outcome[i].clean_headers) :
          outcome[i].clean_headers[c] \notin NamesOfFirstFive =>
              /\ \A k \in 1..Len(unified_schema) :
                    unified_schema[k] # outcome[i].clean_headers[c]
              /\ \A r \in 1..Len(outcome[i].rows) :
                    (c <= Len(outcome[i].fields[r]) /\ outcome[i].fields[r][c] # <<>>)
                        => \A q \in 1..Len(outcome[i].rows[r]) :
                              outcome[i].rows[r][q] # outcome[i].fields[r][c]

\* the unified schema is set by the one step that ends detection, never after
SchemaSetOnce ==
    (unified_schema' # unified_schema \/ schema_status' # schema_status)
        => (pc = "SchemaDetecting" /\ schema_status = "pending" /\ outcome = <<>>)

basica == <<"b","a","s","i","c","a">>
dottxt == <<".","t","x","t">>

\* the name follows the convention basica<date>.txt
Conforming(filename) ==
    /\ Len(filename) >= Len(basica) + Len(dottxt)
    /\ StartsWith(filename, basica)
    /\ EndsWith(filename, dottxt)

\* C14: file_date is the base name of the file without the token basica and
\* the extension .txt (basica2024-01.txt gives 2024-01); a file whose name does
\* not follow the convention is processed all the same, and its rows carry the
\* empty string as file_date.
FileDateIsTheDateOrEmpty ==
    /\ \A t \in Projected :
          LET filename == Basename(outcome[t[1]].file_path)
              file_date == outcome[t[1]].rows[t[2]][2]
          IN  /\ Conforming(filename) =>
                    file_date = SubSeq(filename, Len(basica) + 1,
                                       Len(filename) - Len(dottxt))
              /\ filename = Basename(DatedBlob.name) =>
                    file_date = <<"2","0","2","4","-","0","1">>
              /\ ~Conforming(filename) => file_date = <<>>
    /\ pc = "Completed" =>
          \A i \in 1..Len(files) : outcome[i].file_path = files[i]

\* the position of the header line among the lines of a file that has one
HeaderPosition(lines) ==
    CHOOSE p \in 1..Len(lines) :
        /\ lines[p] = HeaderLine(lines)
        /\ \A q \in 1..(p - 1) : Strip(lines[q]) = <<>> \/ lines[q][1] = "#"

\* the lines after the header line that are not blank
LinesAfterHeader(lines) ==
    SelectSeq(SubSeq(lines, HeaderPosition(lines) + 1, Len(lines)),
              LAMBDA line : Strip(line) # <<>>)

\* the records of the files whose lines load_file_to_bigquery projected
Parsed ==
    { i \in 1..Len(outcome) :
        outcome[i].header_line # None /\ outcome[i].best_delimiter # NoDelimiter }

\* C15: for every file, also one whose header line comes after blank or comment
\* lines, the header line is not projected, and one row is projected for each
\* non-blank line after the header line.
RowsAreTheLinesAfterTheHeaderLine ==
    \A i \in Parsed :
        LET lines == DownloadAsText(bucket, outcome[i].file_path)
        IN  /\ outcome[i].data = LinesAfterHeader(lines)
            /\ Len(outcome[i].rows) = Len(LinesAfterHeader(lines))

\* ------------------------------------------------ one name, two headers

Greatest(positions) == CHOOSE j \in positions : \A q \in positions : q <= j

\* the projected rows and unified columns for which the file has two headers
\* or more that normalize to the name of the column
ProjectedTwice ==
    { <<t, k>> \in Projected \X (1..Len(unified_schema)) :
        Cardinality(HeaderPositions(t[1], unified_schema[k])) >= 2 }

\* C16 as stated: when two raw headers of a file normalize to one name, the
\* later one overwrites the earlier one: the projected value of that column is
\* the field at the index of the last header of that name.
ValueIsUnderTheLastHeaderOfThatName ==
    \A p \in ProjectedTwice :
        LET last == Greatest(HeaderPositions(p[1][1], unified_schema[p[2]]))
            fields == outcome[p[1][1]].fields[p[1][2]]
        IN  outcome[p[1][1]].rows[p[1][2]][p[2] + 2]
                = IF last <= Len(fields) THEN WithApostrophes(fields[last]) ELSE <<>>

\* C16, amended: when two raw headers of a file normalize to one name, the
\* earlier one keeps the column: the projected value is the field at the index
\* of the first header of that name, with its double quotes replaced by
\* apostrophes, and the empty string when the line ends before that index.
ValueIsUnderTheFirstHeaderOfThatName ==
    \A p \in ProjectedTwice :
        LET first == Least(HeaderPositions(p[1][1], unified_schema[p[2]]))
            fields == outcome[p[1][1]].fields[p[1][2]]
        IN  outcome[p[1][1]].rows[p[1][2]][p[2] + 2]
                = IF first <= Len(fields) THEN WithApostrophes(fields[first]) ELSE <<>>

\* C16 witness: under the header a.b;a-b the line x;, was projected to the
\* value x of its first field
FirstOfTwoHeadersProjected ==
    \E t \in Projected :
        /\ outcome[t[1]].header_line = TwiceAB
        /\ outcome[t[1]].clean_headers = << <<"a","_","b">>, <<"a","_","b">> >>
        /\ unified_schema = << <<"a","_","b">> >>
        /\ outcome[t[1]].fields[t[2]] = << <<"x">>, <<",">> >>
        /\ outcome[t[1]].rows[t[2]] = << Basename(Path(1)), <<"1">>, <<"x">> >>

\* ------------------------------------------------ what the loader is given

\* the data lines handed to the bulk loader: file record and line
Emitted ==
    UNION { { <<i, k>> : k \in 1..Len(outcome[i].rows) } :
            i \in { j \in 1..Len(outcome) : outcome[j].submitted } }

\* C17: every data line the projector emits splits, on the file's delimiter,
\* into len(unified_schema) + 2 fields, the projected values one by one, and no
\* emitted value holds a double quote; also for a semicolon file's line whose
\* quoted value holds a semicolon.
EmittedLineSplitsBackToTheRow ==
    \A t \in Emitted :
        LET row == outcome[t[1]].rows[t[2]]
            line == outcome[t[1]].enhanced_content[t[2] + 1]
            again == Split(line, outcome[t[1]].best_delimiter)
        IN  /\ Len(again) = Len(unified_schema) + 2
            /\ again = row
            /\ \A k \in 1..Len(row) : \A j \in 1..Len(row[k]) : row[k][j] # QUOTE

\* ------------------------------------------------ the phases of the run

\* the load jobs submitted so far: the ones that ended and the ones in flight
Submitted ==
    [j \in 1..Len(jobs) |-> [file_path |-> jobs[j].file_path,
                             field_delimiter |-> jobs[j].field_delimiter,
                             content |-> jobs[j].content]]
    \o [j \in 1..Len(in_flight) |-> [file_path |-> in_flight[j].file_path,
                                     field_delimiter |-> in_flight[j].best_delimiter,
                                     content |-> in_flight[j].enhanced_content]]

\* detection, provisioning, loading and completion come in this order
PhasesInOrder ==
    /\ calls # <<>> => (schema_status = "list" /\ unified_schema # <<>>)
    /\ pc \in {"Listing", "Loading", "JobRunning", "Completed"} =>
          (Len(calls) >= 2 /\ SubSeq(calls, 1, 2) = <<"delete_table", "create_table">>)
    /\ Submitted # <<>> =>
          (pc \in {"Loading", "JobRunning", "Completed"} /\ abort = "" /\ table.exists)
    /\ pc = "Completed" =>
          (Len(outcome) = Len(files) /\ files = ListAnacFiles(bucket) /\ in_flight = <<>>)

\* the columns of the target table are the header line of every submitted file
TableHasTheSubmittedColumns ==
    \A j \in 1..Len(Submitted) :
        /\ table.schema = EnhancedHeaders(unified_schema)
        /\ Split(Submitted[j].content[1], Submitted[j].field_delimiter) = table.schema

\* C18: the phases of a run come in the order detection, provisioning, loading,
\* completion: the table is cleared and created only after a non-empty unified
\* schema was detected, no load job is submitted unless table creation
\* succeeded, and the run is Completed only after every listed file was
\* attempted; and the columns of the provisioned table are source_file,
\* file_date and the unified schema, the header line of every submitted file.
PhasesInOrderOverTheUnifiedTable == PhasesInOrder /\ TableHasTheSubmittedColumns

\* ------------------------------------------------ one load job at a time

\* the position of a file in the listing
ListingPosition(file_path) == CHOOSE i \in 1..Len(files) : files[i] = file_path

\* C19: at most one load job is in flight at any time: the loop starts on the
\* next file only after the job of the file before it ended (or that file
\* failed without a job), so the jobs are submitted, and the table written, in
\* listing order and never two at once.
OneLoadJobAtATimeInListingOrder ==
    /\ Len(in_flight) <= 1
    /\ in_flight # <<>> =>
          /\ pc = "JobRunning"
          /\ in_flight[1].file_path = files[loop_index]
    /\ pc \in {"Loading", "JobRunning"} => Len(outcome) = loop_index - 1
    /\ pc = "Loading" => in_flight = <<>>
    /\ \A a, b \in 1..Len(Submitted) :
          a < b => ListingPosition(Submitted[a].file_path)
                       < ListingPosition(Submitted[b].file_path)
    /\ table.loads = [j \in 1..Len(SelectSeq(jobs, LAMBDA job : job.ok)) |->
                          SelectSeq(jobs, LAMBDA job : job.ok)[j].file_path]

\* C19 witness: the job of the second file is in flight, and the job of the
\* first file has ended before
SecondJobInFlightAfterTheFirst ==
    /\ pc = "JobRunning"
    /\ loop_index = 2
    /\ Len(in_flight) = 1
    /\ in_flight[1].file_path = files[2]
    /\ Len(jobs) = 1
    /\ jobs[1].file_path = files[1]
    /\ table.loads = <<files[1]>>

\* ------------------------------------- detection and loading, side by side

\* one file, sampled and then loaded: its header line is any text over the
\* candidate delimiters, the quote and a letter, and its data line is the same text
AgreeBuckets == { BucketOf(<< <<h, h>> >>) : h \in Strings(SniffChars, MaxHeaderLen) }

InitAgree == InitOver(AgreeBuckets, {TRUE}, NoTable)

SpecAgree == InitAgree /\ [][NextQuiet]_vars

NoRowOfAnEarlierRunUnderALoadJob ==
    Submitted # <<>> =>
        /\ table.exists
        /\ ~table.stale
        /\ \A j \in 1..Len(table.loads) :
              \E i \in 1..Len(files) : files[i] = table.loads[j]

\* ------------------------------------- download_file and upload_to_gcs

\* max_retries=3 in both signatures
DefaultMaxRetries == 3

\* what one attempt can come to: in download_file the request, the status check
\* or the writing of the file can raise, in upload_to_gcs the upload
AttemptResults(fn) ==
    IF fn = "download_file" THEN {"ok", "request_failed", "http_error", "write_failed"}
    ELSE {"ok", "upload_failed"}

\* the record of a call that was just made
Called(fn, max_retries, client) ==
    [NoCall EXCEPT !.fn = fn, !.max_retries = max_retries, !.client = client,
                   !.state = "called"]

\* the function is entered: upload_to_gcs returns False at once without a
\* client; "for attempt in range(max_retries)" runs its body, or not at all
EnterCall ==
    /\ call.state = "called"
    /\ call' = IF call.fn = "upload_to_gcs" /\ ~call.client
               THEN [call EXCEPT !.state = "returned", !.ret = "failed"]
               ELSE IF call.attempt < call.max_retries
                    THEN [call EXCEPT !.state = "trying"]
                    ELSE [call EXCEPT !.state = "returned", !.ret = "failed"]
    /\ UNCHANGED <<configured, loader, gcs_client, temp_base, temp_dir, av_pc, av_end,
                   links, link_index, to_upload>>

\* a slip: the test is against max_retries, so the last failure is slept on
LastAttemptOffByOne(attempt, max_retries) == attempt = max_retries

\* "if attempt == max_retries - 1"
LastAttempt(attempt, max_retries) == attempt = max_retries - 1

\* the body of the loop: the try block returns, or the except block returns
\* after the last attempt and goes to sleep after any other
Attempt ==
    /\ call.state = "trying"
    /\ \E result \in AttemptResults(call.fn) :
          call' = IF result = "ok"
                  THEN [call EXCEPT !.tries = Append(@, result),
                                    !.state = "returned", !.ret = "ok"]
                  ELSE IF LastAttempt(call.attempt, call.max_retries)
                       THEN [call EXCEPT !.tries = Append(@, result),
                                         !.state = "returned", !.ret = "failed"]
                       ELSE [call EXCEPT !.tries = Append(@, result),
                                         !.state = "sleeping"]
    /\ UNCHANGED <<configured, loader, gcs_client, temp_base, temp_dir, av_pc, av_end,
                   links, link_index, to_upload>>

\* time.sleep(2 ** attempt), then the next turn of the loop, or the return
\* after the loop when range(max_retries) is used up
Sleep ==
    /\ call.state = "sleeping"
    /\ call' = LET slept == [call EXCEPT !.sleeps = Append(@, 2 ^ call.attempt),
                                         !.attempt = @ + 1]
               IN  IF slept.attempt < slept.max_retries
                   THEN [slept EXCEPT !.state = "trying"]
                   ELSE [slept EXCEPT !.state = "returned", !.ret = "failed"]
    /\ UNCHANGED <<configured, loader, gcs_client, temp_base, temp_dir, av_pc, av_end,
                   links, link_index, to_upload>>

MaxRetries == 3

\* a call of download_file or of upload_to_gcs, with or without a client, with
\* max_retries from 0 to MaxRetries
InitRetry ==
    /\ LoaderInit({<<>>}, {TRUE}, NoTable)
    /\ gcs_client \in BOOLEAN
    /\ temp_base = TRUE
    /\ temp_dir = "present"
    /\ av_pc = "Called"
    /\ av_end = ""
    /\ links = <<>>
    /\ link_index = 1
    /\ to_upload = 0
    /\ \E fn \in {"download_file", "upload_to_gcs"}, n \in 0..MaxRetries :
          call = Called(fn, n, IF fn = "upload_to_gcs" THEN gcs_client ELSE TRUE)

NextRetry == EnterCall \/ Attempt \/ Sleep

\* each statement of the two functions ends: the request has a timeout, the
\* sleep is finite
SpecRetry == InitRetry /\ [][NextRetry]_vars /\ WF_vars(NextRetry)

\* what holds of the attempts and the waits of a call, at every moment
AttemptsAndWaits ==
    /\ Len(call.tries) <= call.max_retries
    /\ \A k \in 1..(Len(call.tries) - 1) : call.tries[k] # "ok"
    /\ Len(call.sleeps) <= Len(call.tries)
    /\ \A k \in 1..Len(call.sleeps) : call.sleeps[k] = 2 ^ (k - 1)
    /\ call.state = "trying" => Len(call.sleeps) = Len(call.tries)
    /\ (call.state = "returned" /\ call.tries # <<>>) =>
          Len(call.sleeps) = Len(call.tries) - 1
    /\ (call.state = "returned" /\ call.ret = "ok") =>
          (call.tries # <<>> /\ call.tries[Len(call.tries)] = "ok")

\* every one of the max_retries attempts was made and failed
AllAttemptsFailed ==
    /\ Len(call.tries) = call.max_retries
    /\ \A k \in 1..Len(call.tries) : call.tries[k] # "ok"

\* C22 as stated: a call makes max_retries attempts at most, returns success
\* at the first attempt that succeeds, returns failure exactly when all
\* max_retries attempts failed, and waits 2^attempt seconds between two
\* attempts only.
FailureOnlyAfterAllAttempts ==
    /\ AttemptsAndWaits
    /\ call.state = "returned" => (call.ret = "failed" <=> AllAttemptsFailed)

\* the same, with the return of upload_to_gcs that comes before any attempt
FailureAfterAllAttemptsOrWithoutClient ==
    /\ AttemptsAndWaits
    /\ call.state = "returned" =>
          (call.ret = "failed" <=>
              \/ AllAttemptsFailed
              \/ call.fn = "upload_to_gcs" /\ ~call.client /\ call.tries = <<>>)

\* C22, amended: download_file and upload_to_gcs always return, after
\* max_retries attempts at most: success at the first attempt that succeeds,
\* with no attempt after it; failure when all max_retries attempts failed, and,
\* for upload_to_gcs called without a client, at once and without any attempt;
\* they wait 2^attempt seconds between two attempts only, never after the last.
RetriesEndAsBounded ==
    []FailureAfterAllAttemptsOrWithoutClient /\ <>(call.state = "returned")

\* C22 witness: a call with max_retries = 3 returned success at its third
\* attempt, after waits of 1 and 2 seconds
ThirdAttemptSucceeded ==
    /\ call.state = "returned"
    /\ call.max_retries = 3
    /\ call.ret = "ok"
    /\ call.tries = <<"request_failed", "http_error", "ok">>
    /\ call.sleeps = <<1, 2>>

\* ------------------------------------------------ process_anac_data

\* the placeholder check, init_gcs_client (None when it fails, and nobody
\* looks), and the two mkdir
StartProcessing(clients) ==
    /\ av_pc = "Idle"
    /\ IF configured
       THEN /\ gcs_client' \in clients
            /\ temp_base' = TRUE
            /\ temp_dir' = "present"
            /\ av_pc' = "Browsing"
            /\ av_end' = av_end
       ELSE /\ av_pc' = "Returned"
            /\ av_end' = "config"
            /\ UNCHANGED <<gcs_client, temp_base, temp_dir>>
    /\ UNCHANGED <<configured, loader, links, link_index, to_upload, call>>

MaxLinks == 2
MaxExtracted == 1

\* a link of the page: without href, or to a ZIP file that holds so many files
\* (none as well when extract_zip fails)
LinkKinds ==
    { [href |-> FALSE, extracted |-> 0] }
    \cup { [href |-> TRUE, extracted |-> n] : n \in 0..MaxExtracted }

\* what the browser gives: an exception (launch, goto, wait_for_selector), or
\* the list of the ZIP links of the page
Pages ==
    { [raises |-> TRUE, links |-> <<>>] }
    \cup { [raises |-> FALSE, links |-> found] :
             found \in UNION { [1..n -> LinkKinds] : n \in 0..MaxLinks } }

\* the page is loaded and its links are read: an exception and an empty list
\* both leave the try block for the finally block
Browse(pages) ==
    /\ av_pc = "Browsing"
    /\ \E page \in pages :
          /\ links' = page.links
          /\ IF page.raises
             THEN av_pc' = "Cleanup" /\ av_end' = "exception"
             ELSE IF page.links = <<>>
                  THEN av_pc' = "Cleanup" /\ av_end' = "no_links"
                  ELSE av_pc' = "NextLink" /\ av_end' = av_end
    /\ UNCHANGED <<configured, loader, gcs_client, temp_base, temp_dir, link_index,
                   to_upload, call>>

\* an exception while a link is handled (get_attribute, inner_text, the mkdir
\* of its extraction directory) ends the try block
LinkRaises ==
    /\ av_pc = "NextLink"
    /\ link_index <= Len(links)
    /\ av_pc' = "Cleanup"
    /\ av_end' = "exception"
    /\ UNCHANGED <<configured, loader, gcs_client, temp_base, temp_dir, links,
                   link_index, to_upload, call>>

\* "if not href: continue"
SkipLink ==
    /\ av_pc = "NextLink"
    /\ link_index <= Len(links)
    /\ ~links[link_index].href
    /\ link_index' = link_index + 1
    /\ UNCHANGED <<configured, loader, gcs_client, temp_base, temp_dir, av_pc, av_end,
                   links, to_upload, call>>

\* download_file(href, filename, temp_dir) is called
BeginDownload ==
    /\ av_pc = "NextLink"
    /\ link_index <= Len(links)
    /\ links[link_index].href
    /\ call' = Called("download_file", DefaultMaxRetries, TRUE)
    /\ av_pc' = "Downloading"
    /\ UNCHANGED <<configured, loader, gcs_client, temp_base, temp_dir, av_end, links,
                   link_index, to_upload>>

\* download_file returned: "if not zip_path: continue", else extract_zip
AfterDownload ==
    /\ av_pc = "Downloading"
    /\ call.state = "returned"
    /\ IF call.ret = "ok"
       THEN /\ to_upload' = links[link_index].extracted
            /\ av_pc' = "Uploading"
            /\ link_index' = link_index
       ELSE /\ to_upload' = 0
            /\ av_pc' = "NextLink"
            /\ link_index' = link_index + 1
    /\ call' = NoCall
    /\ UNCHANGED <<configured, loader, gcs_client, temp_base, temp_dir, av_end, links>>

\* upload_to_gcs is called for the next extracted file
BeginUpload ==
    /\ av_pc = "Uploading"
    /\ call.state = "idle"
    /\ to_upload > 0
    /\ call' = Called("upload_to_gcs", DefaultMaxRetries, gcs_client)
    /\ UNCHANGED <<configured, loader, gcs_client, temp_base, temp_dir, av_pc, av_end,
                   links, link_index, to_upload>>

\* upload_to_gcs returned: what it returned is not looked at
AfterUpload ==
    /\ av_pc = "Uploading"
    /\ call.state = "returned"
    /\ to_upload' = to_upload - 1
    /\ call' = NoCall
    /\ UNCHANGED <<configured, loader, gcs_client, temp_base, temp_dir, av_pc, av_end,
                   links, link_index>>

\* the extracted files of the link are all uploaded: the next link
UploadsDone ==
    /\ av_pc = "Uploading"
    /\ call.state = "idle"
    /\ to_upload = 0
    /\ link_index' = link_index + 1
    /\ av_pc' = "NextLink"
    /\ UNCHANGED <<configured, loader, gcs_client, temp_base, temp_dir, av_end, links,
                   to_upload, call>>

\* the loop over the links is over: browser.close(), which may raise
FinishLinks(results) ==
    /\ av_pc = "NextLink"
    /\ link_index > Len(links)
    /\ \E ok \in results : av_end' = IF ok THEN "completed" ELSE "exception"
    /\ av_pc' = "Cleanup"
    /\ UNCHANGED <<configured, loader, gcs_client, temp_base, temp_dir, links,
                   link_index, to_upload, call>>

\* the finally block: shutil.rmtree(temp_dir); when it raises, the error is
\* logged with "Manual cleanup needed" and the directory stays
Cleanup(results) ==
    /\ av_pc = "Cleanup"
    /\ \E ok \in results : temp_dir' = IF ok THEN "absent" ELSE temp_dir
    /\ av_pc' = "Returned"
    /\ UNCHANGED <<configured, loader, gcs_client, temp_base, av_end, links,
                   link_index, to_upload, call>>

\* process_anac_data is about to be called
InitAviation ==
    /\ LoaderInit({<<>>}, BOOLEAN, NoTable)
    /\ gcs_client = FALSE
    /\ temp_base \in BOOLEAN
    /\ temp_dir = "absent"
    /\ av_pc = "Idle"
    /\ av_end = ""
    /\ links = <<>>
    /\ link_index = 1
    /\ to_upload = 0
    /\ call = NoCall

NextAviation ==
    \/ StartProcessing(BOOLEAN)
    \/ Browse(Pages)
    \/ LinkRaises
    \/ SkipLink
    \/ BeginDownload
    \/ EnterCall
    \/ Attempt
    \/ Sleep
    \/ AfterDownload
    \/ BeginUpload
    \/ AfterUpload
    \/ UploadsDone
    \/ FinishLinks(BOOLEAN)
    \/ Cleanup(BOOLEAN)

SpecAviation == InitAviation /\ [][NextAviation]_vars

\* ------------------------------------------------ temporary storage

\* C23: temporary storage never outlives the operation that created it: once
\* load_file_to_bigquery has returned, the temporary file it wrote is deleted,
\* and once process_anac_data has returned, on whichever way out (completed, no
\* ZIP links, exception), its temporary directory is removed.
TemporaryStorageIsGoneAfterwards ==
    /\ pc \in {"Loading", "Completed"} => temp_files = {}
    /\ av_pc = "Returned" => temp_dir = "absent"

====
